---- MODULE Spec2Model ----
(***************************************************************************)
(* A model of mcp-internet-archive: the four tool handlers (search,        *)
(* metadata, list, download), the input validators of sanitize.ts and the  *)
(* executable resolver / process invoker of ia-runner.ts.                  *)
(*                                                                         *)
(* Strings are sequences of one-character strings.  The fixed words of a   *)
(* message template are kept as single multi-character atoms, so a text is *)
(* a sequence of atoms into which user data is spliced character by        *)
(* character.  Numbers are kept in halves (7 is 3.5) so that non-integers  *)
(* can be given to the numeric validators.                                 *)
(***************************************************************************)
EXTENDS Integers, Sequences, FiniteSets, TLC

VARIABLES isWindows, fs, resolvedIa, writes, calls

vars == <<isWindows, fs, resolvedIa, writes, calls>>

-----------------------------------------------------------------------------
(* Bounds of the exploration *)

MaxOut == 3

(* Longest identifier enumerated character by character. *)
MaxIdLen == 3

(* Most version directories under the pyenv root. *)
MaxDirs == 2

NSlots == 2

-----------------------------------------------------------------------------
(* Optional values, exceptions, numbers *)

Absent == <<>>

Some(v) == <<v>>

Ok(v) == [ok |-> TRUE, val |-> v, err |-> <<>>]

Throw(msg) == [ok |-> FALSE, val |-> <<>>, err |-> msg]

Num(n) == 2 * n

IsInteger(h) == h % 2 = 0

Truthy(h) == h # 0

NumText(h) == ToString(h \div 2)

-----------------------------------------------------------------------------
(* Characters and string helpers *)

Lower == {"a","b","c","d","e","f","g","h","i","j","k","l","m",
          "n","o","p","q","r","s","t","u","v","w","x","y","z"}

Upper == {"A","B","C","D","E","F","G","H","I","J","K","L","M",
          "N","O","P","Q","R","S","T","U","V","W","X","Y","Z"}

Digits == {"0","1","2","3","4","5","6","7","8","9"}

Whitespace == {" ", "\n", "\t", "\r"}

Strs(alphabet, n) == UNION {[1..k -> alphabet] : k \in 0..n}

SetMin(S) == CHOOSE x \in S : \A y \in S : x <= y

SetMax(S) == CHOOSE x \in S : \A y \in S : x >= y

Trim(s) ==
  LET keep == {i \in 1..Len(s) : s[i] \notin Whitespace}
  IN IF keep = {} THEN <<>> ELSE SubSeq(s, SetMin(keep), SetMax(keep))

AllIn(s, class) == \A i \in 1..Len(s) : s[i] \in class

IsInfix(p, s) ==
  \E i \in 0..(Len(s) - Len(p)) : SubSeq(s, i + 1, i + Len(p)) = p

RECURSIVE Join(_, _)
Join(parts, sep) ==
  IF parts = <<>> THEN <<>>
  ELSE IF Len(parts) = 1 THEN parts[1]
  ELSE parts[1] \o sep \o Join(Tail(parts), sep)

RECURSIVE Split(_, _)
Split(s, sep) ==
  LET hits == {i \in 1..Len(s) : s[i] = sep}
  IN IF hits = {} THEN <<s>>
     ELSE <<SubSeq(s, 1, SetMin(hits) - 1)>>
          \o Split(SubSeq(s, SetMin(hits) + 1, Len(s)), sep)

NonEmpty(s) == s # <<>>

-----------------------------------------------------------------------------
(* sanitize.ts *)

IdentifierMaxLen == 100

QueryMaxLen == 2000

GlobMaxLen == 200

DestdirMaxLen == 500

FormatMaxLen == 100

RowsMax == 10000

IdentifierClass == Lower \cup Upper \cup Digits \cup {".", "_", "-"}

GlobClass == Lower \cup Upper \cup Digits
             \cup {".", "*", "?", "[", "]", "_", "-", "/", "{", "}", "|"}

FieldHeadClass == Lower \cup Upper \cup {"_"}

FieldTailClass == Lower \cup Upper \cup Digits \cup {"_"}

IdentifierNoLengthCheck(identifier) ==
  LET trimmed == Trim(identifier)
  IN IF trimmed = <<>>
       THEN Throw(<<"Identifier", "must", "not", "be", "empty">>)
     ELSE IF ~AllIn(trimmed, IdentifierClass)
       THEN Throw(<<"Invalid", "identifier">> \o trimmed)
     ELSE Ok(trimmed)

validateIdentifier(identifier) ==
  LET trimmed == Trim(identifier)
  IN IF trimmed = <<>>
       THEN Throw(<<"Identifier", "must", "not", "be", "empty">>)
     ELSE IF Len(trimmed) > IdentifierMaxLen
       THEN Throw(<<"Identifier", "must", "be", "100", "characters", "or", "fewer">>)
     ELSE IF ~AllIn(trimmed, IdentifierClass)
       THEN Throw(<<"Invalid", "identifier">> \o trimmed
                  \o <<"Only", "letters,", "digits,", "hyphens,", "underscores,",
                       "and", "periods", "are", "allowed.">>)
     ELSE Ok(trimmed)

validateQuery(query) ==
  LET trimmed == Trim(query)
  IN IF trimmed = <<>>
       THEN Throw(<<"Search", "query", "must", "not", "be", "empty">>)
     ELSE IF Len(trimmed) > QueryMaxLen
       THEN Throw(<<"Search", "query", "must", "be", "2000", "characters", "or", "fewer">>)
     ELSE Ok(trimmed)

validateGlob(pattern) ==
  LET trimmed == Trim(pattern)
  IN IF trimmed = <<>>
       THEN Throw(<<"Glob", "pattern", "must", "not", "be", "empty">>)
     ELSE IF Len(trimmed) > GlobMaxLen
       THEN Throw(<<"Glob", "pattern", "must", "be", "200", "characters", "or", "fewer">>)
     ELSE IF ~AllIn(trimmed, GlobClass)
       THEN Throw(<<"Invalid", "glob", "pattern">> \o trimmed
                  \o <<"Contains", "disallowed", "characters.">>)
     ELSE Ok(trimmed)

validateDestdir(dir) ==
  LET trimmed == Trim(dir)
  IN IF trimmed = <<>>
       THEN Throw(<<"Destination", "directory", "must", "not", "be", "empty">>)
     ELSE IF Len(trimmed) > DestdirMaxLen
       THEN Throw(<<"Destination", "directory", "path", "must", "be", "500",
                    "characters", "or", "fewer">>)
     ELSE Ok(trimmed)

validateFormat(format) ==
  LET trimmed == Trim(format)
  IN IF trimmed = <<>>
       THEN Throw(<<"Format", "must", "not", "be", "empty">>)
     ELSE IF Len(trimmed) > FormatMaxLen
       THEN Throw(<<"Format", "name", "must", "be", "100", "characters", "or", "fewer">>)
     ELSE Ok(trimmed)

validateRows(rows) ==
  IF ~IsInteger(rows) \/ rows < Num(1) \/ rows > Num(RowsMax)
    THEN Throw(<<"rows", "must", "be", "an", "integer", "between", "1", "and", "10000">>)
  ELSE Ok(rows)

validatePage(page) ==
  IF ~IsInteger(page) \/ page < Num(1)
    THEN Throw(<<"page", "must", "be", "positive", "integer">>)
  ELSE Ok(page)

validateFieldName(field) ==
  LET trimmed == Trim(field)
  IN IF trimmed # <<>> /\ trimmed[1] \in FieldHeadClass /\ AllIn(Tail(trimmed), FieldTailClass)
       THEN Ok(trimmed)
     ELSE Throw(<<"Invalid", "field", "name">> \o trimmed
                \o <<"Must", "be", "alphanumeric", "with", "underscores.">>)

-----------------------------------------------------------------------------
(* ia-runner.ts: constants, the external process, the executable resolver *)

DEFAULT_TIMEOUT_MS == 120000

DOWNLOAD_TIMEOUT_MS == 600000

ResolveProbeTimeoutMs == 5000

VersionProbeTimeoutMs == 10000

PipBaseCount == 5

FirstScriptsBase == 3

Arg(tag, val) == [tag |-> tag, val |-> val]

VersionArgs == <<Arg("flag", <<"-","-","v","e","r","s","i","o","n">>)>>

PosixIa == [command |-> <<"ia">>, useShell |-> FALSE]

ExeOnPath == [command |-> <<"ia.exe">>, useShell |-> FALSE]

ShellIa == [command |-> <<"ia">>, useShell |-> TRUE]

PyenvExe(i) == [command |-> <<"versions", ToString(i), "Scripts", "ia.exe">>,
                useShell |-> FALSE]

PipDirectExe(b) == [command |-> <<"pip", ToString(b), "ia.exe">>, useShell |-> FALSE]

PipSubExe(b, j) == [command |-> <<"pip", ToString(b), ToString(j), "Scripts", "ia.exe">>,
                    useShell |-> FALSE]

(* Strategy 2: the version directory named by the pyenv version file. *)
PinnedStrategy(f) ==
  IF f.versionFile = "pinned" /\ f.versionsReadable
    THEN LET hits == {i \in 1..Len(f.dirs) : f.dirs[i].matchesPin}
         IN IF hits # {} /\ f.dirs[SetMin(hits)].hasIa
              THEN Some(PyenvExe(SetMin(hits)))
            ELSE Absent
  ELSE Absent

(* Strategy 3: the first version directory that holds ia.exe. *)
WalkStrategy(f) ==
  IF f.versionsReadable
    THEN LET hits == {i \in 1..Len(f.dirs) : f.dirs[i].hasIa}
         IN IF hits # {} THEN Some(PyenvExe(SetMin(hits))) ELSE Absent
  ELSE Absent

(* Strategy 4, one base directory. *)
PipBaseHit(f, b) ==
  LET base == f.bases[b]
      subs == {j \in 1..Len(base.subs) : base.subs[j]}
  IN IF ~base.exists THEN Absent
     ELSE IF b >= FirstScriptsBase /\ base.hasDirect THEN Some(PipDirectExe(b))
     ELSE IF base.readable /\ subs # {} THEN Some(PipSubExe(b, SetMin(subs)))
     ELSE Absent

PipStrategy(f) ==
  LET hits == {b \in 1..PipBaseCount : PipBaseHit(f, b) # Absent}
  IN IF hits # {} THEN PipBaseHit(f, SetMin(hits)) ELSE Absent

ResolveWithoutPip(f) ==
  IF f.versionsExists /\ f.versionFile = "unreadable"
    THEN Throw(<<"EACCES:", "permission", "denied,", "open", "version">>)
  ELSE IF f.versionsExists /\ PinnedStrategy(f) # Absent THEN Ok(PinnedStrategy(f)[1])
  ELSE IF f.versionsExists /\ WalkStrategy(f) # Absent THEN Ok(WalkStrategy(f)[1])
  ELSE Ok(ShellIa)

(* resolveIaExecutable after the ia.exe probe failed: strategies 2 to 4,    *)
(* then the shell fallback.  readFileSync of the version file is outside    *)
(* any try block.                                                           *)
ResolveFromFs(f) ==
  IF f.versionsExists /\ f.versionFile = "unreadable"
    THEN Throw(<<"EACCES:", "permission", "denied,", "open", "version">>)
  ELSE IF f.versionsExists /\ PinnedStrategy(f) # Absent THEN Ok(PinnedStrategy(f)[1])
  ELSE IF f.versionsExists /\ WalkStrategy(f) # Absent THEN Ok(WalkStrategy(f)[1])
  ELSE IF PipStrategy(f) # Absent THEN Ok(PipStrategy(f)[1])
  ELSE Ok(ShellIa)

(* What execFile reports for one child. *)
ExecStatuses == {"ok", "nonzero", "spawnfail", "timeout", "maxbuffer"}

Killed(status) == status = "timeout"

ExecMessage(status) ==
  CASE status = "nonzero" -> <<"Command", "failed:", "ia">>
    [] status = "spawnfail" -> <<"spawn", "ia", "ENOENT">>
    [] status = "maxbuffer" -> <<"stdout", "maxBuffer", "length", "exceeded">>
    [] OTHER -> <<"Command", "failed:", "ia">>

ArgVals(args) == [i \in 1..Len(args) |-> args[i].val]

TimeoutMessageNoDetail(o, timeoutMs, args) ==
  IF Killed(o.status) THEN <<"ia", "command", "timed", "out">>
  ELSE <<"ia", "command", "failed:">>
       \o (IF o.stderr # <<>> THEN o.stderr ELSE ExecMessage(o.status))

(* The message of the Error runIa throws for a failed child. *)
runIaError(o, timeoutMs, args) ==
  IF Killed(o.status)
    THEN <<"ia", "command", "timed", "out", "after", ToString(timeoutMs \div 1000),
           "seconds.", "Command:", "ia">> \o Join(ArgVals(args), <<" ">>)
  ELSE <<"ia", "command", "failed:">>
       \o (IF o.stderr # <<>> THEN o.stderr ELSE ExecMessage(o.status))

UnavailableMessage ==
  <<"The", "Internet", "Archive", "CLI", "(ia)", "is", "not", "installed", "or",
    "not", "on", "PATH.", "Install", "it", "with:", "pip", "install",
    "internetarchive", "Then", "configure", "with:", "ia", "configure",
    "Verify", "with:", "ia", "--version">>

-----------------------------------------------------------------------------
(* tools/*.ts: argument objects *)

Ops == {"search", "metadata", "list", "download"}

Subcommand(op) ==
  CASE op = "search" -> <<"s","e","a","r","c","h">>
    [] op = "metadata" -> <<"m","e","t","a","d","a","t","a">>
    [] op = "list" -> <<"l","i","s","t">>
    [] OTHER -> <<"d","o","w","n","l","o","a","d">>

NoArgs ==
  [query |-> Absent, fields |-> Absent, rows |-> Absent, page |-> Absent,
   identifier |-> Absent, glob |-> Absent, destdir |-> Absent, format |-> Absent,
   dry_run |-> Absent]

DEFAULT_ROWS == 50

DEFAULT_PAGE == 1

TypeErrorMessage == <<"Cannot", "read", "properties", "of", "undefined">>

NoValidated == [identifier |-> <<>>, page |-> 0, rows |-> 0, iaArgs |-> <<>>]

(* A required string argument that is missing makes .trim() throw. *)
Required(opt, Validate(_)) ==
  IF opt = Absent THEN Throw(TypeErrorMessage) ELSE Validate(opt[1])

(* `args.x ? validate(args.x) : default` and `if (args.x) push(validate(args.x))` *)
TruthyString(opt) == opt # Absent /\ opt[1] # <<>>

TruthyNumber(opt) == opt # Absent /\ Truthy(opt[1])

SearchRows(args) ==
  IF TruthyNumber(args.rows) THEN validateRows(args.rows[1]) ELSE Ok(Num(DEFAULT_ROWS))

SearchPage(args) ==
  IF TruthyNumber(args.page) THEN validatePage(args.page[1]) ELSE Ok(Num(DEFAULT_PAGE))

SearchFields(args) ==
  IF args.fields # Absent /\ Len(args.fields[1]) > 0 THEN args.fields[1] ELSE <<>>

RECURSIVE FieldArgs(_)
FieldArgs(fields) ==
  IF fields = <<>> THEN <<>>
  ELSE <<Arg("flag", <<"-","-","f","i","e","l","d">>),
         Arg("field", validateFieldName(Head(fields)).val)>>
       \o FieldArgs(Tail(fields))

ParametersArg(page, rows) ==
  Arg("parameters", <<"p","a","g","e","=", NumText(page), "&",
                      "r","o","w","s","=", NumText(rows)>>)

(* handleSearch, lines 28-44: the validated values and the argument vector, *)
(* or the first exception thrown on the way.                                *)
ValidateSearch(args) ==
  LET query == Required(args.query, validateQuery)
      rows == SearchRows(args)
      page == SearchPage(args)
      fields == SearchFields(args)
      bad == {i \in 1..Len(fields) : ~validateFieldName(fields[i]).ok}
  IN IF ~query.ok THEN query
     ELSE IF ~rows.ok THEN rows
     ELSE IF ~page.ok THEN page
     ELSE IF bad # {} THEN validateFieldName(fields[SetMin(bad)])
     ELSE Ok([identifier |-> <<>>, page |-> page.val, rows |-> rows.val,
              iaArgs |-> <<Arg("subcommand", Subcommand("search")),
                           Arg("query", query.val),
                           Arg("flag", <<"-","-","p","a","r","a","m","e","t","e","r","s">>),
                           ParametersArg(page.val, rows.val)>>
                         \o FieldArgs(fields)])

(* handleMetadata, lines 22-23 *)
ValidateMetadata(args) ==
  LET identifier == Required(args.identifier, validateIdentifier)
  IN IF ~identifier.ok THEN identifier
     ELSE Ok([identifier |-> identifier.val, page |-> 0, rows |-> 0,
              iaArgs |-> <<Arg("subcommand", Subcommand("metadata")),
                           Arg("identifier", identifier.val)>>])

(* handleList, lines 20-21 *)
ValidateList(args) ==
  LET identifier == Required(args.identifier, validateIdentifier)
  IN IF ~identifier.ok THEN identifier
     ELSE Ok([identifier |-> identifier.val, page |-> 0, rows |-> 0,
              iaArgs |-> <<Arg("subcommand", Subcommand("list")),
                           Arg("identifier", identifier.val),
                           Arg("flag", <<"-","-","a","l","l">>),
                           Arg("flag", <<"-","-","v","e","r","b","o","s","e">>)>>])

DownloadOptionsUnchecked(args) ==
  LET identifier == Required(args.identifier, validateIdentifier)
  IN IF ~identifier.ok THEN identifier
     ELSE Ok([identifier |-> identifier.val, page |-> 0, rows |-> 0,
              iaArgs |-> <<Arg("subcommand", Subcommand("download")),
                           Arg("identifier", identifier.val)>>
                \o (IF TruthyString(args.glob)
                      THEN <<Arg("flag", <<"-","-","g","l","o","b">>),
                             Arg("glob", args.glob[1])>>
                    ELSE <<>>)])

(* handleDownload, lines 35-52 *)
ValidateDownload(args) ==
  LET identifier == Required(args.identifier, validateIdentifier)
      glob == IF TruthyString(args.glob) THEN validateGlob(args.glob[1]) ELSE Ok(<<>>)
      destdir == IF TruthyString(args.destdir) THEN validateDestdir(args.destdir[1])
                 ELSE Ok(<<>>)
      format == IF TruthyString(args.format) THEN validateFormat(args.format[1])
                ELSE Ok(<<>>)
  IN IF ~identifier.ok THEN identifier
     ELSE IF ~glob.ok THEN glob
     ELSE IF ~destdir.ok THEN destdir
     ELSE IF ~format.ok THEN format
     ELSE Ok([identifier |-> identifier.val, page |-> 0, rows |-> 0,
              iaArgs |-> <<Arg("subcommand", Subcommand("download")),
                           Arg("identifier", identifier.val)>>
                \o (IF TruthyString(args.glob)
                      THEN <<Arg("flag", <<"-","-","g","l","o","b">>),
                             Arg("glob", glob.val)>>
                    ELSE <<>>)
                \o (IF TruthyString(args.destdir)
                      THEN <<Arg("flag", <<"-","-","d","e","s","t","d","i","r">>),
                             Arg("destdir", destdir.val)>>
                    ELSE <<>>)
                \o (IF TruthyString(args.format)
                      THEN <<Arg("flag", <<"-","-","f","o","r","m","a","t">>),
                             Arg("format", format.val)>>
                    ELSE <<>>)
                \o (IF args.dry_run = Some(TRUE)
                      THEN <<Arg("flag", <<"-","-","d","r","y","-","r","u","n">>)>>
                    ELSE <<>>)])

Validate(op, args) ==
  CASE op = "search" -> ValidateSearch(args)
    [] op = "metadata" -> ValidateMetadata(args)
    [] op = "list" -> ValidateList(args)
    [] OTHER -> ValidateDownload(args)

(* The timeout each handler passes to runIa. *)
TimeoutFor(op) == IF op = "download" THEN DOWNLOAD_TIMEOUT_MS ELSE DEFAULT_TIMEOUT_MS

-----------------------------------------------------------------------------
(* tools/*.ts: results *)

ErrorResult(text) == [isError |-> TRUE, text |-> text, data |-> <<>>]

TextResult(text) == [isError |-> FALSE, text |-> text, data |-> <<>>]

FailPrefix(op) ==
  CASE op = "search" -> <<"Search", "failed:">>
    [] op = "metadata" -> <<"Metadata", "retrieval", "failed:">>
    [] op = "list" -> <<"List", "failed:">>
    [] OTHER -> <<"Download", "failed:">>

BareCatch(op, msg) == ErrorResult(msg)

(* The catch block of the second try of every handler. *)
HandlerCatch(op, msg) == ErrorResult(FailPrefix(op) \o msg)

(* The catch block of the first try of every handler. *)
UnavailableResult == ErrorResult(UnavailableMessage)

(* JSON.parse on the texts the model's child processes can write: over the  *)
(* output alphabet the only JSON documents are numbers, a digit string      *)
(* without a leading zero inside optional whitespace.                       *)
ParseJson(s) ==
  LET t == Trim(s)
  IN IF t # <<>> /\ AllIn(t, Digits) /\ (Len(t) = 1 \/ t[1] # "0")
       THEN Ok(t)
     ELSE Throw(<<"Unexpected", "token", "in", "JSON">>)

Parses(line) == ParseJson(line).ok

(* handleSearch line 49 *)
SearchLines(stdout) == SelectSeq(Split(Trim(stdout), "\n"), NonEmpty)

RECURSIVE UntilMalformed(_)
UntilMalformed(lines) ==
  IF lines = <<>> \/ ~Parses(Head(lines)) THEN <<>>
  ELSE <<ParseJson(Head(lines)).val>> \o UntilMalformed(Tail(lines))

ResultsUntilMalformed(stdout) == UntilMalformed(SearchLines(stdout))

(* handleSearch lines 50-57 *)
SearchResults(stdout) ==
  LET good == SelectSeq(SearchLines(stdout), Parses)
  IN [i \in 1..Len(good) |-> ParseJson(good[i]).val]

(* handleSearch lines 59-68 *)
ShapeSearch(v, stdout) ==
  LET results == SearchResults(stdout)
  IN Ok([isError |-> FALSE,
         text |-> <<"total_results:", ToString(Len(results)),
                    "page:", NumText(v.page), "rows:", NumText(v.rows), "results:">>
                  \o Join(results, <<",">>),
         data |-> <<[total_results |-> Len(results), page |-> v.page,
                     rows |-> v.rows, results |-> results]>>])

(* handleMetadata lines 25-41 *)
ShapeMetadata(v, stdout) ==
  LET trimmed == Trim(stdout)
  IN IF trimmed = <<>>
       THEN Ok(ErrorResult(<<"No", "metadata", "found", "for">> \o v.identifier
                           \o <<"The", "item", "may", "not", "exist.">>))
     ELSE IF ParseJson(trimmed).ok THEN Ok(TextResult(ParseJson(trimmed).val))
     ELSE ParseJson(trimmed)

ListUntrimmed(v, stdout) ==
  IF stdout = <<>>
    THEN Ok(ErrorResult(<<"No", "files", "found", "for">> \o v.identifier
                        \o <<"The", "item", "may", "not", "exist.">>))
  ELSE Ok(TextResult(<<"Files", "in">> \o v.identifier \o <<":", "\n", "\n">> \o stdout))

(* handleList lines 23-40 *)
ShapeList(v, stdout) ==
  LET trimmed == Trim(stdout)
  IN IF trimmed = <<>>
       THEN Ok(ErrorResult(<<"No", "files", "found", "for">> \o v.identifier
                           \o <<"The", "item", "may", "not", "exist.">>))
     ELSE Ok(TextResult(<<"Files", "in">> \o v.identifier \o <<":", "\n", "\n">>
                        \o trimmed))

(* handleDownload line 56 *)
DownloadOutput(stdout, stderr) ==
  Trim(Join(SelectSeq(<<stdout, stderr>>, NonEmpty), <<"\n">>))

DownloadNeverDryRun(v, dryRun, stdout, stderr) ==
  LET output == DownloadOutput(stdout, stderr)
  IN IF output = <<>>
       THEN Ok(TextResult(<<"Download", "completed", "for">> \o v.identifier
                          \o <<"(no", "output", "files", "may", "already", "exist).">>))
     ELSE Ok(TextResult(<<"Download", "completed", "for">> \o v.identifier
                        \o <<":", "\n">> \o output))

(* handleDownload lines 56-78 *)
ShapeDownload(v, dryRun, stdout, stderr) ==
  LET output == DownloadOutput(stdout, stderr)
  IN IF output = <<>>
       THEN Ok(TextResult(<<"Download", "completed", "for">> \o v.identifier
                          \o <<"(no", "output", "files", "may", "already", "exist).">>))
     ELSE IF dryRun = Some(TRUE)
       THEN Ok(TextResult(<<"Dry", "run", "for">> \o v.identifier
                          \o <<":", "\n">> \o output))
     ELSE Ok(TextResult(<<"Download", "completed", "for">> \o v.identifier
                        \o <<":", "\n">> \o output))

(* What a handler does with the child's output after runIa returned. *)
Shape(op, args, v, stdout, stderr) ==
  CASE op = "search" -> ShapeSearch(v, stdout)
    [] op = "metadata" -> ShapeMetadata(v, stdout)
    [] op = "list" -> ShapeList(v, stdout)
    [] OTHER -> ShapeDownload(v, args.dry_run, stdout, stderr)

ShapeOutsideTry(op, step) == step # "shape"

(* Which steps run inside one of the two try blocks of a handler: all of    *)
(* them; a call of runIa from outside the handlers is inside none.          *)
TryCovers(op, step) == op \in Ops

OnlySpawnFailure(status) == status # "spawnfail"

(* checkIaAvailable: the awaited probe resolves only on exit code 0. *)
ProbeSucceeded(status) == status = "ok"

-----------------------------------------------------------------------------
(* State: the process-wide cache, the platform and file system the resolver *)
(* reads, and the tool calls in flight.                                     *)

Calls == 1..NSlots

Idle ==
  [pc |-> "idle", op |-> "none", args |-> NoArgs, from |-> "none",
   validated |-> NoValidated, timeoutMs |-> 0, spawns |-> <<>>,
   result |-> <<>>, escaped |-> FALSE]

NewSpawn(kind, exe, args, timeout) ==
  [kind |-> kind, command |-> exe.command, shell |-> exe.useShell, args |-> args,
   timeout |-> timeout, status |-> "running", killed |-> FALSE,
   stdout |-> <<>>, stderr |-> <<>>]

Outcome(status, stdout, stderr) ==
  [status |-> status, stdout |-> stdout, stderr |-> stderr]

(* The child awaited by the call ends: execFile kills it on timeout. *)
Completed(call, o) ==
  [call EXCEPT !.spawns[Len(call.spawns)] =
     [@ EXCEPT !.status = o.status, !.killed = Killed(o.status),
               !.stdout = o.stdout, !.stderr = o.stderr]]

Returned(call, result) == [call EXCEPT !.pc = "done", !.result = <<result>>]

(* An exception raised in `step`: converted by the enclosing catch block,   *)
(* or leaving the handler when no try block encloses the step.              *)
Raised(call, step, msg) ==
  IF ~TryCovers(call.op, step) THEN [call EXCEPT !.pc = "done", !.escaped = TRUE]
  ELSE IF step = "precheck" THEN Returned(call, UnavailableResult)
  ELSE Returned(call, HandlerCatch(call.op, msg))

(* File systems *)
NoBase == [exists |-> FALSE, hasDirect |-> FALSE, readable |-> FALSE, subs |-> <<>>]

NoBases == [b \in 1..PipBaseCount |-> NoBase]

EmptyFs ==
  [versionsExists |-> FALSE, versionsReadable |-> FALSE, versionFile |-> "missing",
   dirs |-> <<>>, bases |-> NoBases]

Dir(matchesPin, hasIa) == [matchesPin |-> matchesPin, hasIa |-> hasIa]

PinnedFs ==
  [EmptyFs EXCEPT !.versionsExists = TRUE, !.versionsReadable = TRUE,
                  !.versionFile = "pinned",
                  !.dirs = <<Dir(FALSE, TRUE), Dir(TRUE, TRUE)>>]

WalkFs ==
  [EmptyFs EXCEPT !.versionsExists = TRUE, !.versionsReadable = TRUE,
                  !.dirs = <<Dir(FALSE, FALSE), Dir(FALSE, TRUE)>>]

PipFs ==
  [EmptyFs EXCEPT !.bases[1] = [exists |-> TRUE, hasDirect |-> FALSE,
                                readable |-> TRUE, subs |-> <<FALSE, TRUE>>]]

UnreadablePinFs ==
  [EmptyFs EXCEPT !.versionsExists = TRUE, !.versionsReadable = TRUE,
                  !.versionFile = "unreadable", !.dirs = <<Dir(TRUE, TRUE)>>]

WindowsFs == {EmptyFs, PinnedFs, WalkFs, PipFs, UnreadablePinFs}

Init ==
  /\ isWindows \in BOOLEAN
  /\ fs \in (IF isWindows THEN WindowsFs ELSE {EmptyFs})
  /\ resolvedIa = Absent
  /\ writes = 0
  /\ calls = [c \in Calls |-> Idle]

-----------------------------------------------------------------------------
(* Steps of a call, one per stretch of code between two awaited children *)

AfterResolveRetries(c, call, r) ==
  IF call.from = "check"
    THEN IF r.ok
           THEN calls' = [calls EXCEPT ![c] =
                  [call EXCEPT !.pc = "versionProbe",
                               !.spawns = Append(@, NewSpawn("version", r.val, VersionArgs,
                                                             VersionProbeTimeoutMs))]]
         ELSE calls' = [calls EXCEPT ![c] = Raised(call, "precheck", r.err)]
  ELSE IF r.ok
         THEN calls' = [calls EXCEPT ![c] =
                [call EXCEPT !.pc = "mainExec",
                             !.spawns = @ \o <<NewSpawn("main", r.val, call.validated.iaArgs,
                                                        call.timeoutMs),
                                               NewSpawn("main", r.val, call.validated.iaArgs,
                                                        call.timeoutMs)>>]]
       ELSE calls' = [calls EXCEPT ![c] = Raised(call, "resolve", r.err)]

(* After resolveIaExecutable settled with r, in checkIaAvailable (from =    *)
(* "check": the version probe is spawned, a rejection is caught at line     *)
(* 165) or in runIa (from = "run": line 187 is outside runIa's try block,   *)
(* so a rejection reaches the handler's catch; otherwise the main child is  *)
(* spawned).                                                                *)
AfterResolve(c, call, r) ==
  IF call.from = "check"
    THEN IF r.ok
           THEN calls' = [calls EXCEPT ![c] =
                  [call EXCEPT !.pc = "versionProbe",
                               !.spawns = Append(@, NewSpawn("version", r.val, VersionArgs,
                                                             VersionProbeTimeoutMs))]]
         ELSE calls' = [calls EXCEPT ![c] = Raised(call, "precheck", r.err)]
  ELSE IF r.ok
         THEN calls' = [calls EXCEPT ![c] =
                [call EXCEPT !.pc = "mainExec",
                             !.spawns = Append(@, NewSpawn("main", r.val,
                                                           call.validated.iaArgs,
                                                           call.timeoutMs))]]
       ELSE calls' = [calls EXCEPT ![c] = Raised(call, "resolve", r.err)]

EnterResolveUncached(c, call) ==
  IF ~isWindows
    THEN /\ resolvedIa' = Some(PosixIa)
         /\ writes' = writes + 1
         /\ AfterResolve(c, call, Ok(PosixIa))
  ELSE /\ calls' = [calls EXCEPT ![c] =
            [call EXCEPT !.pc = "resolveProbe",
                         !.spawns = Append(@, NewSpawn("resolve", ExeOnPath, VersionArgs,
                                                       ResolveProbeTimeoutMs))]]
       /\ UNCHANGED <<resolvedIa, writes>>

(* resolveIaExecutable up to its first await (lines 38-47). *)
EnterResolve(c, call) ==
  IF resolvedIa # Absent
    THEN AfterResolve(c, call, Ok(resolvedIa[1])) /\ UNCHANGED <<resolvedIa, writes>>
  ELSE IF ~isWindows
    THEN /\ resolvedIa' = Some(PosixIa)
         /\ writes' = writes + 1
         /\ AfterResolve(c, call, Ok(PosixIa))
  ELSE /\ calls' = [calls EXCEPT ![c] =
            [call EXCEPT !.pc = "resolveProbe",
                         !.spawns = Append(@, NewSpawn("resolve", ExeOnPath, VersionArgs,
                                                       ResolveProbeTimeoutMs))]]
       /\ UNCHANGED <<resolvedIa, writes>>

(* A handler is called: checkIaAvailable starts. *)
Begin(c, op, args) ==
  /\ \A d \in Calls : calls[d].pc = "idle"
  /\ c = 1
  /\ EnterResolve(c, [Idle EXCEPT !.op = op, !.args = args, !.from = "check"])
  /\ UNCHANGED <<isWindows, fs>>

(* The ia.exe probe of strategy 1 ends (lines 47-52), and the rest of       *)
(* resolveIaExecutable runs (lines 54-144).                                 *)
ResolveProbeDone(c) ==
  /\ calls[c].pc = "resolveProbe"
  /\ \E status \in {"ok", "nonzero", "spawnfail", "timeout"} :
       LET call == Completed(calls[c], Outcome(status, <<>>, <<>>))
           r == IF status = "ok" THEN Ok(ExeOnPath) ELSE ResolveFromFs(fs)
       IN /\ resolvedIa' = (IF r.ok THEN Some(r.val) ELSE resolvedIa)
          /\ writes' = (IF r.ok THEN writes + 1 ELSE writes)
          /\ AfterResolve(c, call, r)
  /\ UNCHANGED <<isWindows, fs>>

(* The version probe of checkIaAvailable ends; on success the handler       *)
(* validates its arguments and calls runIa, all without awaiting.           *)
VersionProbeDone(c) ==
  /\ calls[c].pc = "versionProbe"
  /\ \E status \in {"ok", "nonzero", "spawnfail", "timeout"} :
       LET call == Completed(calls[c], Outcome(status, <<>>, <<>>))
           v == Validate(call.op, call.args)
       IN IF ~ProbeSucceeded(status)
            THEN /\ calls' = [calls EXCEPT ![c] = Raised(call, "precheck", <<>>)]
                 /\ UNCHANGED <<resolvedIa, writes>>
          ELSE IF ~v.ok
            THEN /\ calls' = [calls EXCEPT ![c] = Raised(call, "validate", v.err)]
                 /\ UNCHANGED <<resolvedIa, writes>>
          ELSE EnterResolve(c, [call EXCEPT !.from = "run", !.validated = v.val,
                                            !.timeoutMs = TimeoutFor(call.op)])
  /\ UNCHANGED <<isWindows, fs>>

(* The main child ends with outcome o: runIa returns or throws, the handler *)
(* shapes the output or catches.                                            *)
MainDone(c, o) ==
  /\ calls[c].pc = "mainExec"
  /\ LET call == Completed(calls[c], o)
         shaped == Shape(call.op, call.args, call.validated, o.stdout, o.stderr)
     IN calls' = [calls EXCEPT ![c] =
          IF o.status # "ok"
            THEN Raised(call, "invoke",
                        runIaError(o, call.timeoutMs, call.validated.iaArgs))
          ELSE IF ~shaped.ok THEN Raised(call, "shape", shaped.err)
          ELSE Returned(call, shaped.val)]
  /\ UNCHANGED <<isWindows, fs, resolvedIa, writes>>

(* The result has been handed to the transport. *)
Return(c) ==
  /\ calls[c].pc = "done"
  /\ calls' = [calls EXCEPT ![c] = Idle]
  /\ UNCHANGED <<isWindows, fs, resolvedIa, writes>>

-----------------------------------------------------------------------------
(* The argument objects and child outcomes explored *)

ValidQuery == Some(<<" ", "q", "&", "\"", " ">>)

QueryInputs == {Absent, Some(<<" ">>), ValidQuery}

FieldsInputs ==
  {Some(<<>>), Some(<< <<"t", "_", "1">> >>),
   Some(<< <<" ", "f", " ">>, <<"1", "f">> >>), Some(<< <<"f", "-", "g">> >>)}

RowsInputs ==
  {Absent} \cup {Some(h) : h \in {0, Num(1), 7, Num(RowsMax), Num(RowsMax + 1), -2}}

PageInputs == {Absent} \cup {Some(h) : h \in {0, Num(2), 3, -2}}

ValidIdentifier == Some(<<" ", "i", "t", "-", "1", " ">>)

IdentifierInputs ==
  {Absent, Some(<<>>), ValidIdentifier, Some(<<"a", "&", "b">>), Some(<<"x", ".", "y">>)}

GlobInputs == {Some(<<>>), Some(<<" ">>), Some(<<"*", ".", "a">>), Some(<<"a", "&">>)}

DestdirInputs == {Some(<<" ">>), Some(<<" ", "d", "&", " ">>)}

FormatInputs == {Some(<<" ">>), Some(<<"P", "D", "F", "&", "c">>)}

DryRunInputs == {Some(TRUE), Some(FALSE)}

(* Argument objects: each parameter is varied over its inputs, the paging   *)
(* parameters together, the download options one at a time and all at once. *)
SearchInputs ==
  {[NoArgs EXCEPT !.query = q] : q \in QueryInputs}
  \cup {[NoArgs EXCEPT !.query = ValidQuery, !.rows = r, !.page = p] :
          r \in RowsInputs, p \in PageInputs}
  \cup {[NoArgs EXCEPT !.query = ValidQuery, !.fields = f] : f \in FieldsInputs}

IdentifierOnlyInputs == {[NoArgs EXCEPT !.identifier = i] : i \in IdentifierInputs}

DownloadInputs ==
  IdentifierOnlyInputs
  \cup {[NoArgs EXCEPT !.identifier = ValidIdentifier, !.glob = g] : g \in GlobInputs}
  \cup {[NoArgs EXCEPT !.identifier = ValidIdentifier, !.destdir = d] : d \in DestdirInputs}
  \cup {[NoArgs EXCEPT !.identifier = ValidIdentifier, !.format = f] : f \in FormatInputs}
  \cup {[NoArgs EXCEPT !.identifier = ValidIdentifier, !.dry_run = y] : y \in DryRunInputs}
  \cup {[NoArgs EXCEPT !.identifier = ValidIdentifier, !.glob = g, !.destdir = d,
                       !.format = f, !.dry_run = Some(TRUE)] :
          g \in {Some(<<"*", ".", "a">>)}, d \in {Some(<<" ", "d", "&", " ">>)},
          f \in {Some(<<"P", "D", "F", "&", "c">>)}}

Inputs(op) ==
  CASE op = "search" -> SearchInputs
    [] op = "download" -> DownloadInputs
    [] OTHER -> IdentifierOnlyInputs

FailureOutcomes ==
  {Outcome(status, <<>>, stderr) :
     status \in {"nonzero"}, stderr \in {<<>>, <<"e", "r", "r">>}}
  \cup {Outcome(status, <<>>, <<>>) : status \in {"spawnfail", "timeout", "maxbuffer"}}

MainOutcomes(op) ==
  FailureOutcomes
  \cup (IF op = "download"
          THEN {Outcome("ok", out, err) :
                  out \in {<<>>, <<"o", "\n">>}, err \in {<<>>, <<"e">>}}
        ELSE {Outcome("ok", out, <<>>) :
                out \in {<<>>, <<" ", "\n">>, <<"7", "\n">>, <<"x", "\n", "7">>}})

(* A tool call arrives. *)
StartCall(c) == \E op \in Ops : \E args \in Inputs(op) : Begin(c, op, args)

(* The main child of a call ends. *)
MainExecDone(c) == \E o \in MainOutcomes(calls[c].op) : MainDone(c, o)

Next ==
  \E c \in Calls :
    \/ StartCall(c)
    \/ ResolveProbeDone(c)
    \/ VersionProbeDone(c)
    \/ MainExecDone(c)
    \/ Return(c)

Spec == Init /\ [][Next]_vars

(* The same handlers driven by few argument objects and many child outputs *)

ShapeInputs(op) ==
  CASE op = "search" ->
         {[NoArgs EXCEPT !.query = ValidQuery],
          [NoArgs EXCEPT !.query = ValidQuery, !.rows = Some(Num(7)), !.page = Some(Num(2))]}
    [] op = "download" ->
         {[NoArgs EXCEPT !.identifier = ValidIdentifier, !.dry_run = y] :
            y \in {Absent} \cup DryRunInputs}
    [] OTHER -> {[NoArgs EXCEPT !.identifier = ValidIdentifier]}

ShapeOutcomes(op) ==
  IF op = "download"
    THEN {Outcome("ok", out, err) :
            out \in Strs({"o", " ", "\n"}, MaxOut),
            err \in {<<>>, <<"e">>, <<"e", "\n">>, <<" ">>}}
  ELSE {Outcome("ok", out, <<>>) : out \in Strs({"7", "x", " ", "\n"}, MaxOut)}

InitShape ==
  /\ isWindows \in BOOLEAN
  /\ fs = EmptyFs
  /\ resolvedIa = Absent
  /\ writes = 0
  /\ calls = [c \in Calls |-> Idle]

StartShape(c) == \E op \in Ops : \E args \in ShapeInputs(op) : Begin(c, op, args)

MainExecShape(c) == \E o \in ShapeOutcomes(calls[c].op) : MainDone(c, o)

NextShape ==
  \E c \in Calls :
    \/ StartShape(c)
    \/ ResolveProbeDone(c)
    \/ VersionProbeDone(c)
    \/ MainExecShape(c)
    \/ Return(c)

SpecShape == InitShape /\ [][NextShape]_vars

-----------------------------------------------------------------------------
(* What a finished call shows of its own history *)

Done(c) == calls[c].pc = "done"

Returns(c) == Done(c) /\ Len(calls[c].result) = 1

MainSpawned(call) == \E i \in 1..Len(call.spawns) : call.spawns[i].kind = "main"

MainStatus(call, status) ==
  \E i \in 1..Len(call.spawns) :
    call.spawns[i].kind = "main" /\ call.spawns[i].status = status

MainOutput(call) ==
  LET i == CHOOSE j \in 1..Len(call.spawns) : call.spawns[j].kind = "main"
  IN call.spawns[i]

VersionProbeOk(call) ==
  \E i \in 1..Len(call.spawns) :
    call.spawns[i].kind = "version" /\ call.spawns[i].status = "ok"

PrecheckFailed(call) == call.pc = "done" /\ ~VersionProbeOk(call)

RowsRejected(opt) ==
  opt # Absent /\ ~(opt[1] % 2 = 0 /\ opt[1] >= 2 /\ opt[1] <= 20000)

PageRejected(opt) == opt # Absent /\ ~(opt[1] % 2 = 0 /\ opt[1] >= 2)

IdentifierFails(opt) == opt = Absent \/ ~validateIdentifier(opt[1]).ok

(* The arguments of the call make some validator of sanitize.ts throw. *)
InputFailsValidation(op, args) ==
  CASE op = "search" ->
         \/ args.query = Absent
         \/ ~validateQuery(args.query[1]).ok
         \/ (TruthyNumber(args.rows) /\ RowsRejected(args.rows))
         \/ (TruthyNumber(args.page) /\ PageRejected(args.page))
         \/ \E i \in 1..Len(SearchFields(args)) :
              ~validateFieldName(SearchFields(args)[i]).ok
    [] op = "download" ->
         \/ IdentifierFails(args.identifier)
         \/ (TruthyString(args.glob) /\ ~validateGlob(args.glob[1]).ok)
         \/ (TruthyString(args.destdir) /\ ~validateDestdir(args.destdir[1]).ok)
         \/ (TruthyString(args.format) /\ ~validateFormat(args.format[1]).ok)
    [] OTHER -> IdentifierFails(args.identifier)

ValidationFailed(call) ==
  call.pc = "done" /\ VersionProbeOk(call) /\ InputFailsValidation(call.op, call.args)

InvocationFailed(call) ==
  \E status \in ExecStatuses \ {"ok"} : MainStatus(call, status)

DocumentParseFailed(call) ==
  /\ call.op = "metadata"
  /\ MainStatus(call, "ok")
  /\ Trim(MainOutput(call).stdout) # <<>>
  /\ ~ParseJson(MainOutput(call).stdout).ok

LineParseFailed(call) ==
  /\ call.op = "search"
  /\ MainStatus(call, "ok")
  /\ \E i \in 1..Len(Split(MainOutput(call).stdout, "\n")) :
       LET line == Split(MainOutput(call).stdout, "\n")[i]
       IN Trim(line) # <<>> /\ ~ParseJson(line).ok

EmptyOutput(call) ==
  /\ call.op \in {"metadata", "list"}
  /\ MainStatus(call, "ok")
  /\ AllIn(MainOutput(call).stdout, Whitespace)

OpWords(op) ==
  CASE op = "search" -> {"Search", "search"}
    [] op = "metadata" -> {"Metadata", "metadata"}
    [] op = "list" -> {"List", "list"}
    [] OTHER -> {"Download", "download"}

Mentions(op, text) ==
  \/ \E i \in 1..Len(text) : text[i] \in OpWords(op)
  \/ IsInfix(Subcommand(op), text)

-----------------------------------------------------------------------------
(* C1 as stated: a call that ends in a validation failure has spawned no    *)
(* child process at all.                                                    *)
C1_NoChildBeforeValidationFailure ==
  \A c \in Calls : ValidationFailed(calls[c]) => calls[c].spawns = <<>>

(* C1, amended: a call whose input fails validation never spawns the main   *)
(* subcommand; it returns the validation failure, and the only children it  *)
(* has spawned by then are the `--version` probes of the availability       *)
(* precheck (and of the resolver), which ran before validation.             *)
C1_ValidationBeforeSubcommand ==
  \A c \in Calls :
    /\ calls[c].pc # "idle" /\ InputFailsValidation(calls[c].op, calls[c].args)
         => ~MainSpawned(calls[c])
    /\ ValidationFailed(calls[c])
         => /\ Returns(c)
            /\ calls[c].result[1].isError
            /\ calls[c].spawns # <<>>
            /\ \A i \in 1..Len(calls[c].spawns) :
                 /\ calls[c].spawns[i].kind \in {"resolve", "version"}
                 /\ calls[c].spawns[i].args = VersionArgs

C1_Witness ==
  \E c \in Calls :
    /\ ValidationFailed(calls[c])
    /\ calls[c].op = "download"
    /\ calls[c].args.glob = Some(<<"a", "&">>)
    /\ Len(calls[c].spawns) = 1

(* C2 as stated: no handler ever throws, and whenever the precheck,         *)
(* validation, resolution, invocation or any output parsing fails the       *)
(* result is an error.                                                      *)
C2_EveryFailureIsAnError ==
  \A c \in Calls :
    Done(c) =>
      /\ ~calls[c].escaped
      /\ Returns(c)
      /\ (\/ PrecheckFailed(calls[c])
          \/ ValidationFailed(calls[c])
          \/ InvocationFailed(calls[c])
          \/ DocumentParseFailed(calls[c])
          \/ LineParseFailed(calls[c]))
           => calls[c].result[1].isError

(* C2, amended: no handler ever throws or rejects; whenever the precheck    *)
(* (including resolution), validation, the process invocation or the        *)
(* parsing of the metadata document fails, the returned result is an error  *)
(* without a payload.  A search output line that fails to parse is skipped  *)
(* and does not make the result an error.                                   *)
C2_ErrorBoundary ==
  \A c \in Calls :
    Done(c) =>
      /\ ~calls[c].escaped
      /\ Returns(c)
      /\ (\/ PrecheckFailed(calls[c])
          \/ ValidationFailed(calls[c])
          \/ InvocationFailed(calls[c])
          \/ DocumentParseFailed(calls[c]))
           => calls[c].result[1].isError /\ calls[c].result[1].data = <<>>
      /\ (LineParseFailed(calls[c]) => ~calls[c].result[1].isError)

C2_Witness ==
  \E c \in Calls :
    /\ Returns(c)
    /\ DocumentParseFailed(calls[c])
    /\ calls[c].result[1].isError

(* C3 as stated: the text of every failure result names the operation that *)
(* failed.                                                                  *)
C3_EveryFailureNamesOperation ==
  \A c \in Calls :
    Returns(c) /\ calls[c].result[1].isError
      => Mentions(calls[c].op, calls[c].result[1].text)

(* C3, amended: every failure result produced by a handler's catch block    *)
(* (validation, timeout, execution and parse failures) is the operation's   *)
(* "<Operation> failed:" prefix followed by a non-empty cause, and the      *)
(* empty-output failure of metadata names the operation too; an             *)
(* Unavailable failure carries only the installation guidance, and the      *)
(* empty-output failure of list only "No files found for <identifier>",     *)
(* neither naming the operation.                                            *)
C3_CaughtFailureNamesOperation ==
  \A c \in Calls :
    Returns(c) /\ calls[c].result[1].isError =>
      LET text == calls[c].result[1].text
          prefix == FailPrefix(calls[c].op)
      IN IF PrecheckFailed(calls[c])
           THEN text = UnavailableMessage /\ ~Mentions(calls[c].op, text)
         ELSE IF EmptyOutput(calls[c])
           THEN Mentions(calls[c].op, text) <=> calls[c].op = "metadata"
         ELSE /\ Len(text) > Len(prefix)
              /\ SubSeq(text, 1, Len(prefix)) = prefix
              /\ Mentions(calls[c].op, text)

C3_Witness ==
  \E c \in Calls :
    /\ Returns(c)
    /\ calls[c].op = "list"
    /\ MainStatus(calls[c], "nonzero")
    /\ calls[c].result[1].text = <<"List", "failed:", "ia", "command", "failed:", "e", "r", "r">>

(* C4: the first child of every call is a `--version` probe; the main       *)
(* subcommand is spawned only after a version probe of the same call        *)
(* succeeded; a call whose probe failed (or whose resolver failed) returns  *)
(* the Unavailable error with the installation guidance and has spawned no  *)
(* main subcommand.                                                         *)
C4_AvailabilityGate ==
  \A c \in Calls :
    LET call == calls[c]
    IN /\ call.pc # "idle" =>
            /\ call.spawns # <<>>
            /\ call.spawns[1].kind \in {"resolve", "version"}
            /\ call.spawns[1].args = VersionArgs
       /\ \A i \in 1..Len(call.spawns) :
            call.spawns[i].kind = "main" =>
              \E j \in 1..(i - 1) :
                call.spawns[j].kind = "version" /\ call.spawns[j].status = "ok"
       /\ PrecheckFailed(call) =>
            /\ Returns(c)
            /\ call.result[1] = ErrorResult(UnavailableMessage)
            /\ ~MainSpawned(call)

C4_Witness ==
  \E c \in Calls :
    /\ PrecheckFailed(calls[c])
    /\ Returns(c)
    /\ \E i \in 1..Len(calls[c].spawns) :
         calls[c].spawns[i].kind = "version" /\ calls[c].spawns[i].status = "nonzero"
    /\ calls[c].result[1].text = UnavailableMessage

(* C5: a search call whose supplied rows is not an integer in [1, 10000],   *)
(* or whose supplied page is not a positive integer, never invokes the      *)
(* search subcommand, and once its precheck passed it ends in an error.     *)
C5_SearchRejectsBadPaging ==
  \A c \in Calls :
    (/\ calls[c].op = "search"
     /\ (RowsRejected(calls[c].args.rows) \/ PageRejected(calls[c].args.page)))
      => /\ ~MainSpawned(calls[c])
         /\ (Returns(c) => calls[c].result[1].isError)

(* C6: in shell-mediated mode every user-supplied argument value passed to  *)
(* the child, other than the search query and the destination directory,    *)
(* consists only of characters of a class the validators enforce.           *)
C6_ShellArgumentsClassRestricted ==
  \A c \in Calls :
    \A i \in 1..Len(calls[c].spawns) :
      calls[c].spawns[i].shell =>
        \A k \in 1..Len(calls[c].spawns[i].args) :
          LET arg == calls[c].spawns[i].args[k]
          IN arg.tag \in {"identifier", "field", "glob", "format"}
               => AllIn(arg.val, IdentifierClass) \/ AllIn(arg.val, GlobClass)

(* C7: every main child is run with the 600-second timeout by download and  *)
(* the 120-second default by search, metadata and list; a main child that   *)
(* exceeds its timeout is killed, and the call ends in an error whose text  *)
(* holds the timeout in seconds and the attempted subcommand.               *)
C7_TimeoutClassification ==
  \A c \in Calls :
    \A i \in 1..Len(calls[c].spawns) :
      LET child == calls[c].spawns[i]
          seconds == IF calls[c].op = "download" THEN "600" ELSE "120"
      IN child.kind = "main" =>
           /\ child.timeout = (IF calls[c].op = "download" THEN 600000 ELSE 120000)
           /\ child.status = "timeout" =>
                /\ child.killed
                /\ Returns(c)
                /\ calls[c].result[1].isError
                /\ IsInfix(<<"timed", "out", "after", seconds, "seconds.">>,
                           calls[c].result[1].text)
                /\ IsInfix(<<"Command:", "ia">> \o Subcommand(calls[c].op),
                           calls[c].result[1].text)

C7_Witness ==
  \E c \in Calls :
    /\ calls[c].op = "download"
    /\ MainStatus(calls[c], "timeout")
    /\ Returns(c)
    /\ IsInfix(<<"after", "600", "seconds.">>, calls[c].result[1].text)

(* C8: when the metadata or list child exits successfully with empty or     *)
(* whitespace-only standard output, the result is an error whose text holds *)
(* the validated identifier.                                                *)
C8_EmptyOutputIsNotFound ==
  \A c \in Calls :
    Done(c) /\ EmptyOutput(calls[c]) =>
      /\ Returns(c)
      /\ calls[c].result[1].isError
      /\ calls[c].validated.identifier # <<>>
      /\ AllIn(calls[c].validated.identifier, IdentifierClass)
      /\ IsInfix(<<"found", "for">> \o calls[c].validated.identifier,
                 calls[c].result[1].text)

C8_Witness ==
  \E c \in Calls :
    /\ Done(c)
    /\ calls[c].op = "list"
    /\ EmptyOutput(calls[c])
    /\ MainOutput(calls[c]).stdout = <<" ", "\n">>
    /\ calls[c].result[1].isError

ParsedLinesOf(stdout) ==
  LET lines == Split(stdout, "\n")
      good == SelectSeq(lines, Parses)
  IN [i \in 1..Len(good) |-> Trim(good[i])]

(* C9: after a successful search invocation the result is a success whose   *)
(* `results` are the parsed values of the output lines that parse, in their *)
(* order; lines that do not parse are skipped; `total_results` is the       *)
(* length of `results`; `page` and `rows` are the validated values, or 1    *)
(* and 50.                                                                  *)
C9_SearchOutputShaping ==
  \A c \in Calls :
    Done(c) /\ calls[c].op = "search" /\ MainStatus(calls[c], "ok") =>
      /\ Returns(c)
      /\ ~calls[c].result[1].isError
      /\ Len(calls[c].result[1].data) = 1
      /\ LET out == calls[c].result[1].data[1]
             args == calls[c].args
         IN /\ out.results = ParsedLinesOf(MainOutput(calls[c]).stdout)
            /\ out.total_results = Len(out.results)
            /\ out.page = (IF TruthyNumber(args.page) THEN args.page[1] ELSE Num(1))
            /\ out.rows = (IF TruthyNumber(args.rows) THEN args.rows[1] ELSE Num(50))

C9_Witness ==
  \E c \in Calls :
    /\ Returns(c)
    /\ calls[c].op = "search"
    /\ MainStatus(calls[c], "ok")
    /\ MainOutput(calls[c]).stdout = <<"x", "\n", "7">>
    /\ calls[c].result[1].data[1].total_results = 1
    /\ calls[c].result[1].data[1].results = << <<"7">> >>

DownloadGeneric(identifier) ==
  <<"Download", "completed", "for">> \o identifier
  \o <<"(no", "output", "files", "may", "already", "exist).">>

JoinedOutput(stdout, stderr) ==
  IF stdout # <<>> /\ stderr # <<>> THEN stdout \o <<"\n">> \o stderr
  ELSE stdout \o stderr

DownloadPrefix(call) ==
  (IF call.args.dry_run = Some(TRUE) THEN <<"Dry", "run", "for">>
   ELSE <<"Download", "completed", "for">>)
  \o call.validated.identifier \o <<":", "\n">>

(* C10 as stated: after a successful download invocation the result is a    *)
(* success; with both outputs empty it is the generic message; otherwise    *)
(* its text holds standard output and standard error verbatim, behind the   *)
(* dry-run prefix exactly when dry_run is true.                             *)
C10_DownloadOutputVerbatim ==
  \A c \in Calls :
    Done(c) /\ calls[c].op = "download" /\ MainStatus(calls[c], "ok") =>
      LET out == MainOutput(calls[c])
          text == calls[c].result[1].text
      IN /\ Returns(c)
         /\ ~calls[c].result[1].isError
         /\ IF out.stdout = <<>> /\ out.stderr = <<>>
              THEN text = DownloadGeneric(calls[c].validated.identifier)
            ELSE /\ SubSeq(text, 1, Len(DownloadPrefix(calls[c]))) = DownloadPrefix(calls[c])
                 /\ IsInfix(JoinedOutput(out.stdout, out.stderr), text)

(* C10, amended: after a successful download invocation the result is a     *)
(* success; its output is standard output and standard error, joined by a   *)
(* newline when both are non-empty, with leading and trailing whitespace    *)
(* removed; when that output is empty (both empty, or only whitespace) the  *)
(* text is the generic message; otherwise the text is the dry-run prefix    *)
(* exactly when dry_run is true, else the completion prefix, followed by    *)
(* that trimmed output.                                                     *)
C10_DownloadOutputTrimmed ==
  \A c \in Calls :
    Done(c) /\ calls[c].op = "download" /\ MainStatus(calls[c], "ok") =>
      LET out == MainOutput(calls[c])
          text == calls[c].result[1].text
          joined == JoinedOutput(out.stdout, out.stderr)
      IN /\ Returns(c)
         /\ ~calls[c].result[1].isError
         /\ IF AllIn(joined, Whitespace)
              THEN text = DownloadGeneric(calls[c].validated.identifier)
            ELSE /\ text = DownloadPrefix(calls[c]) \o Trim(joined)
                 /\ (text[1] = "Dry" <=> calls[c].args.dry_run = Some(TRUE))

C10_Witness ==
  \E c \in Calls :
    /\ Returns(c)
    /\ calls[c].op = "download"
    /\ calls[c].args.dry_run = Some(TRUE)
    /\ MainStatus(calls[c], "ok")
    /\ MainOutput(calls[c]).stdout = <<"o", "\n">>
    /\ MainOutput(calls[c]).stderr = <<"e", "\n">>
    /\ calls[c].result[1].text
         = <<"Dry", "run", "for", "i", "t", "-", "1", ":", "\n", "o", "\n", "\n", "e">>

-----------------------------------------------------------------------------
(* The identifier handlers driven by many identifiers *)

Repeat(ch, n) == [i \in 1..n |-> ch]

IdentifierAlphabet == {"a", "-", "&", " "}

LongIdentifiers ==
  {Repeat("a", IdentifierMaxLen),
   Repeat("a", IdentifierMaxLen + 1),
   <<" ">> \o Repeat("a", IdentifierMaxLen) \o <<"\n">>,
   <<" ">> \o Repeat("a", IdentifierMaxLen + 1),
   Repeat("Z", IdentifierMaxLen - 1) \o <<"&">>}

IdentifierCases == Strs(IdentifierAlphabet, MaxIdLen) \cup LongIdentifiers

StartIdentifier(c) ==
  \E op \in {"metadata", "list", "download"} : \E s \in IdentifierCases :
    Begin(c, op, [NoArgs EXCEPT !.identifier = Some(s)])

MainExecIdentifier(c) ==
  \E o \in {Outcome("ok", <<"7">>, <<>>), Outcome("nonzero", <<>>, <<>>)} : MainDone(c, o)

NextIdentifier ==
  \E c \in Calls :
    \/ StartIdentifier(c)
    \/ ResolveProbeDone(c)
    \/ VersionProbeDone(c)
    \/ MainExecIdentifier(c)
    \/ Return(c)

SpecIdentifier == InitShape /\ [][NextIdentifier]_vars

(* C11 as stated: validateIdentifier fails for every identifier that holds  *)
(* a character outside letters, digits, '.', '_', '-' (or is empty after    *)
(* trimming, or longer than 100 characters), and for every identifier       *)
(* within the class and of length at most 100 it returns the trimmed value. *)
C11_IdentifierClassAsStated ==
  \A c \in Calls :
    calls[c].pc # "idle" /\ calls[c].args.identifier # Absent =>
      LET s == calls[c].args.identifier[1]
          r == validateIdentifier(s)
      IN /\ (\/ ~AllIn(s, IdentifierClass)
             \/ Trim(s) = <<>>
             \/ Len(s) > IdentifierMaxLen) => ~r.ok
         /\ (AllIn(s, IdentifierClass) /\ s # <<>> /\ Len(s) <= IdentifierMaxLen)
              => r.ok /\ r.val = Trim(s)

(* C11, amended: the class and the length are those of the trimmed          *)
(* identifier.  validateIdentifier fails when the identifier without its    *)
(* leading and trailing whitespace is empty, longer than 100 characters or  *)
(* holds a character outside the class; otherwise it succeeds and returns   *)
(* that trimmed value, which is what the handler passes to the subcommand;  *)
(* when it fails the handler spawns no subcommand and returns an error.     *)
C11_TrimmedIdentifierClass ==
  \A c \in Calls :
    calls[c].pc # "idle" /\ calls[c].args.identifier # Absent =>
      LET s == calls[c].args.identifier[1]
          t == Trim(s)
          r == validateIdentifier(s)
          fails == t = <<>> \/ Len(t) > IdentifierMaxLen \/ ~AllIn(t, IdentifierClass)
      IN /\ fails => ~r.ok
         /\ ~fails => r.ok /\ r.val = t
         /\ MainSpawned(calls[c]) =>
              /\ ~fails
              /\ calls[c].validated.identifier = t
              /\ MainOutput(calls[c]).args[2].val = t
         /\ (Done(c) /\ VersionProbeOk(calls[c]) /\ fails) =>
              Returns(c) /\ calls[c].result[1].isError

C11_Witness ==
  \E c \in Calls :
    /\ calls[c].args.identifier = Some(<<" ">> \o Repeat("a", IdentifierMaxLen) \o <<"\n">>)
    /\ MainSpawned(calls[c])
    /\ calls[c].validated.identifier = Repeat("a", IdentifierMaxLen)

-----------------------------------------------------------------------------
(* The child a step of call c spawns, if any *)

Spawned(c) == Len(calls'[c].spawns) > Len(calls[c].spawns)

NewChild(c) == calls'[c].spawns[Len(calls'[c].spawns)]

ChildOf(exe, child) == child.command = exe.command /\ child.shell = exe.useShell

-----------------------------------------------------------------------------
(* The ia.exe probe of the call's resolution has ended. *)
ResolveProbeEnded(call) ==
  /\ Len(call.spawns) >= 1
  /\ call.spawns[1].kind = "resolve"
  /\ call.spawns[1].status # "running"

(* C13: resolution never fails.  On every platform and file system, once    *)
(* the ia.exe probe of a resolution has ended the resolution has returned a *)
(* pair: the pair is cached and checkIaAvailable goes on to run the version *)
(* probe with it, the shell-mediated `ia` when the probe failed and no      *)
(* strategy found ia.exe; the resolution never throws.                      *)
C13_ResolutionNeverFails ==
  \A c \in Calls :
    ResolveProbeEnded(calls[c]) =>
      /\ resolvedIa # Absent
      /\ Len(calls[c].spawns) >= 2
      /\ calls[c].spawns[2].kind = "version"
      /\ ChildOf(resolvedIa[1], calls[c].spawns[2])
      /\ (calls[c].spawns[1].status # "ok" /\ fs = EmptyFs
            => resolvedIa = Some(ShellIa))

-----------------------------------------------------------------------------
(* Tool calls that overlap: the transport dispatches a request as it        *)
(* arrives, so a handler starts while others are awaiting their children.   *)

Arrive(c, op, args) ==
  /\ calls[c].pc = "idle"
  /\ EnterResolve(c, [Idle EXCEPT !.op = op, !.args = args, !.from = "check"])
  /\ UNCHANGED <<isWindows, fs>>

ConcurrentOps == {"metadata", "download"}

ConcurrentInputs(op) == {[NoArgs EXCEPT !.identifier = ValidIdentifier]}

ConcurrentOutcomes == {Outcome("ok", <<"7">>, <<>>), Outcome("timeout", <<>>, <<>>)}

StartConcurrent(c) ==
  \E op \in ConcurrentOps : \E args \in ConcurrentInputs(op) : Arrive(c, op, args)

MainExecConcurrent(c) == \E o \in ConcurrentOutcomes : MainDone(c, o)

NextConcurrent ==
  \E c \in Calls :
    \/ StartConcurrent(c)
    \/ ResolveProbeDone(c)
    \/ VersionProbeDone(c)
    \/ MainExecConcurrent(c)
    \/ Return(c)

SpecConcurrent == Init /\ [][NextConcurrent]_vars

(* C14: under any interleaving of overlapping tool calls the cached pair is *)
(* written at most once in the lifetime of the process.                     *)
C14_WrittenAtMostOnce == writes <= 1

-----------------------------------------------------------------------------
(* runIa called on its own, as the exported function it is, between tool    *)
(* calls: the cache may be empty when it starts.                            *)

RunIaArgs ==
  {<<Arg("subcommand", Subcommand("list")), Arg("identifier", <<"i", "t", "-", "1">>)>>}

RunIaTimeouts == {DEFAULT_TIMEOUT_MS, DOWNLOAD_TIMEOUT_MS}

IaResult(stdout, stderr) == [stdout |-> stdout, stderr |-> stderr]

(* runIa(args, timeoutMs), line 187: resolveIaExecutable is awaited first. *)
RunIaCall(c) ==
  /\ \A d \in Calls : calls[d].pc = "idle"
  /\ c = 1
  /\ \E args \in RunIaArgs : \E timeoutMs \in RunIaTimeouts :
       EnterResolve(c, [Idle EXCEPT !.op = "runIa", !.from = "run",
                                    !.validated = [NoValidated EXCEPT !.iaArgs = args],
                                    !.timeoutMs = timeoutMs])
  /\ UNCHANGED <<isWindows, fs>>

(* The child of a direct runIa call ends: lines 195 and 196-215. *)
RunIaSettles(c) ==
  /\ calls[c].pc = "mainExec"
  /\ calls[c].op = "runIa"
  /\ \E o \in FailureOutcomes \cup {Outcome("ok", <<"7", "\n">>, <<"e">>)} :
       LET call == Completed(calls[c], o)
       IN calls' = [calls EXCEPT ![c] =
            IF o.status # "ok"
              THEN Raised(call, "invoke",
                          runIaError(o, call.timeoutMs, call.validated.iaArgs))
            ELSE Returned(call, IaResult(o.stdout, o.stderr))]
  /\ UNCHANGED <<isWindows, fs, resolvedIa, writes>>

StartHandler(c) ==
  \E op \in ConcurrentOps : \E args \in ConcurrentInputs(op) : Begin(c, op, args)

MainExecHandler(c) ==
  /\ calls[c].op \in Ops
  /\ \E o \in ConcurrentOutcomes \cup {Outcome("nonzero", <<>>, <<"e">>)} : MainDone(c, o)

NextRunIa ==
  \E c \in Calls :
    \/ RunIaCall(c)
    \/ RunIaSettles(c)
    \/ StartHandler(c)
    \/ ResolveProbeDone(c)
    \/ VersionProbeDone(c)
    \/ MainExecHandler(c)
    \/ Return(c)

SpecRunIa == Init /\ [][NextRunIa]_vars

(* runIa was called in this call, and has settled. *)
RunIaSettled(call) == call.pc = "done" /\ call.from = "run"

(* The children spawned since runIa was called: in a handler, those after   *)
(* the version probe of the precheck.                                       *)
RunIaChildren(call) ==
  IF call.op = "runIa" THEN call.spawns
  ELSE LET v == CHOOSE i \in 1..Len(call.spawns) : call.spawns[i].kind = "version"
       IN SubSeq(call.spawns, v + 1, Len(call.spawns))

KindCount(children, kind) ==
  Cardinality({i \in 1..Len(children) : children[i].kind = kind})

(* C15 as stated: every settled call of runIa has spawned exactly one       *)
(* child, whatever its outcome and whether or not the executable was        *)
(* resolved when it started.                                                *)
C15_ExactlyOneChildPerCall ==
  \A c \in Calls :
    RunIaSettled(calls[c]) => Len(RunIaChildren(calls[c])) = 1

(* C15, amended: every settled call of runIa has spawned exactly one child  *)
(* for its subcommand, whatever the outcome of that child, and never a      *)
(* second one; the only other child it can have spawned is the one ia.exe   *)
(* probe of a resolution that started with an empty cache on Windows,       *)
(* before the subcommand (and then the subcommand is not spawned when that  *)
(* resolution throws).  In the handlers the precheck has resolved the       *)
(* executable before runIa is called, so the subcommand is the only child.  *)
C15_OneSubcommandChildPerCall ==
  \A c \in Calls :
    RunIaSettled(calls[c]) =>
      LET children == RunIaChildren(calls[c])
          n == Len(children)
      IN /\ n \in {1, 2}
         /\ KindCount(children, "version") = 0
         /\ KindCount(children, "main") <= 1
         /\ KindCount(children, "main") = 1 =>
              children[n].kind = "main" /\ children[n].status # "running"
         /\ KindCount(children, "main") = 0 =>
              calls[c].escaped /\ resolvedIa = Absent
         /\ KindCount(children, "resolve") = 1 =>
              isWindows /\ children[1].kind = "resolve" /\ children[1].status # "running"
         /\ calls[c].op \in Ops => n = 1 /\ children[1].kind = "main"

(* A direct call with an empty cache on Windows: the ia.exe probe failed,   *)
(* the shell fallback was taken, and the subcommand timed out once.         *)
C15_Witness ==
  \E c \in Calls :
    /\ RunIaSettled(calls[c])
    /\ calls[c].op = "runIa"
    /\ Len(calls[c].spawns) = 2
    /\ calls[c].spawns[1].kind = "resolve"
    /\ calls[c].spawns[1].status = "spawnfail"
    /\ calls[c].spawns[2].kind = "main"
    /\ ChildOf(ShellIa, calls[c].spawns[2])
    /\ calls[c].spawns[2].status = "timeout"
    /\ calls[c].escaped

-----------------------------------------------------------------------------
(* The resolver over many file systems *)

DirKinds == {Dir(m, h) : m \in BOOLEAN, h \in BOOLEAN}

DirLists == UNION {[1..k -> DirKinds] : k \in 0..MaxDirs}

PyenvStates ==
  {EmptyFs}
  \cup {[EmptyFs EXCEPT !.versionsExists = TRUE, !.versionsReadable = r,
                        !.versionFile = v, !.dirs = d] :
          r \in BOOLEAN, v \in {"missing", "pinned", "unreadable"}, d \in DirLists}

BaseKinds ==
  {[exists |-> TRUE, hasDirect |-> TRUE, readable |-> TRUE, subs |-> <<>>],
   [exists |-> TRUE, hasDirect |-> FALSE, readable |-> TRUE, subs |-> <<FALSE, TRUE>>],
   [exists |-> TRUE, hasDirect |-> FALSE, readable |-> FALSE, subs |-> <<TRUE>>],
   [exists |-> TRUE, hasDirect |-> TRUE, readable |-> TRUE, subs |-> <<TRUE>>]}

BasesStates ==
  {NoBases}
  \cup {[NoBases EXCEPT ![b] = k] : b \in 1..PipBaseCount, k \in BaseKinds}
  \cup {[NoBases EXCEPT ![b1] = k1, ![b2] = k2] :
          b1 \in {1, 3}, b2 \in {2, 4}, k1 \in BaseKinds, k2 \in BaseKinds}

NoPyenvHit ==
  {EmptyFs,
   [EmptyFs EXCEPT !.versionsExists = TRUE, !.versionsReadable = TRUE,
                   !.versionFile = "pinned", !.dirs = <<Dir(TRUE, FALSE)>>],
   [EmptyFs EXCEPT !.versionsExists = TRUE, !.versionFile = "pinned",
                   !.dirs = <<Dir(TRUE, TRUE)>>]}

ResolveFs ==
  PyenvStates
  \cup {[p EXCEPT !.bases = PipFs.bases] : p \in PyenvStates}
  \cup {[p EXCEPT !.bases = b] : p \in NoPyenvHit, b \in BasesStates}

InitResolve ==
  /\ isWindows \in BOOLEAN
  /\ fs \in (IF isWindows THEN ResolveFs ELSE {EmptyFs})
  /\ resolvedIa = Absent
  /\ writes = 0
  /\ calls = [c \in Calls |-> Idle]

StartResolve(c) == Begin(c, "list", [NoArgs EXCEPT !.identifier = ValidIdentifier])

MainExecResolve(c) == MainDone(c, Outcome("ok", <<"7">>, <<>>))

NextResolve ==
  \E c \in Calls :
    \/ StartResolve(c)
    \/ ResolveProbeDone(c)
    \/ VersionProbeDone(c)
    \/ MainExecResolve(c)
    \/ Return(c)

SpecResolve == InitResolve /\ [][NextResolve]_vars

(* Where the file system holds an ia.exe the strategies look at. *)
PinnedDir(f) == {i \in 1..Len(f.dirs) : f.dirs[i].matchesPin}

UnderPinnedVersion(f) ==
  /\ f.versionsExists /\ f.versionsReadable /\ f.versionFile = "pinned"
  /\ PinnedDir(f) # {}
  /\ f.dirs[SetMin(PinnedDir(f))].hasIa

UnderAnyVersion(f) ==
  f.versionsExists /\ f.versionsReadable /\ \E i \in 1..Len(f.dirs) : f.dirs[i].hasIa

InScriptsBase(f, b) == b >= FirstScriptsBase /\ f.bases[b].exists /\ f.bases[b].hasDirect

InSubdirectory(f, b) ==
  /\ f.bases[b].exists /\ f.bases[b].readable
  /\ \E j \in 1..Len(f.bases[b].subs) : f.bases[b].subs[j]

InConventionalDir(f) ==
  \E b \in 1..PipBaseCount : InScriptsBase(f, b) \/ InSubdirectory(f, b)

(* A resolution of this call ran its strategies and returned a pair. *)
ResolvedHere(call) == ResolveProbeEnded(call) /\ resolvedIa # Absent

(* C16: shell mode is the last resort, whenever the resolver returns a      *)
(* pair.  Off Windows the resolver yields {ia, direct}.  On Windows it      *)
(* yields {ia, shell} only when the ia.exe                                  *)
(* probe failed and ia.exe is neither under the pinned version, nor under   *)
(* any installed version, nor in a conventional directory or one of its     *)
(* subdirectories; whenever one of them holds ia.exe the result is that     *)
(* executable in direct mode, from the earliest strategy that finds it.     *)
C16_ShellIsLastResort ==
  /\ (resolvedIa # Absent /\ ~isWindows) => resolvedIa = Some(PosixIa)
  /\ (resolvedIa # Absent /\ resolvedIa[1].useShell) =>
       /\ isWindows
       /\ resolvedIa = Some(ShellIa)
       /\ ~UnderPinnedVersion(fs) /\ ~UnderAnyVersion(fs) /\ ~InConventionalDir(fs)
  /\ \A c \in Calls :
       ResolvedHere(calls[c]) =>
         LET pair == resolvedIa[1]
             probeOk == calls[c].spawns[1].status = "ok"
             b == SetMin({x \in 1..PipBaseCount :
                            InScriptsBase(fs, x) \/ InSubdirectory(fs, x)})
         IN /\ ChildOf(pair, calls[c].spawns[2])
            /\ IF probeOk THEN pair = ExeOnPath
               ELSE IF UnderPinnedVersion(fs)
                 THEN pair = PyenvExe(SetMin(PinnedDir(fs)))
               ELSE IF UnderAnyVersion(fs)
                 THEN pair = PyenvExe(SetMin({i \in 1..Len(fs.dirs) : fs.dirs[i].hasIa}))
               ELSE IF InConventionalDir(fs)
                 THEN pair = (IF InScriptsBase(fs, b) THEN PipDirectExe(b)
                              ELSE PipSubExe(b, SetMin({j \in 1..Len(fs.bases[b].subs) :
                                                          fs.bases[b].subs[j]})))
               ELSE pair = ShellIa

(* The probe failed, the pinned version directory holds no ia.exe, the one  *)
(* conventional directory that exists cannot be read: the shell pair.       *)
C16_Witness ==
  \E c \in Calls :
    /\ ResolvedHere(calls[c])
    /\ calls[c].spawns[1].status = "nonzero"
    /\ fs.versionFile = "pinned"
    /\ fs.dirs = <<Dir(TRUE, FALSE)>>
    /\ fs.bases[1].exists /\ ~fs.bases[1].readable
    /\ resolvedIa = Some(ShellIa)
    /\ calls[c].spawns[2].kind = "version"
    /\ calls[c].spawns[2].shell

====
